---- MODULE Spec2Model ----
(***************************************************************************)
(* Model of the Ascend container prestart hook (cli/src/main.c): the       *)
(* command-line parsers, DoPrepare and the SetupContainer pipeline; and of *)
(* the binding of the vendor library (runtime/dcmi/dcmi_interface_api.h).  *)
(*                                                                         *)
(* A C string is a sequence of one-character strings.  A path is a         *)
(* sequence of tokens, each either the separator "/" or one name between   *)
(* two separators.  A C integer wider than TLC's integers is a sequence of *)
(* 16-bit limbs, least significant first.                                  *)
(***************************************************************************)
EXTENDS Integers, Sequences, FiniteSets, TLC

VARIABLES
    pc,        \* position of the invocation in Process / SetupContainer
    args,      \* struct CmdArgs of Process
    config,    \* struct ParsedConfig of SetupContainer
    ns,        \* mount namespace the calling process is a member of
    fds,       \* descriptor table: how often originNsFd was opened and closed
    ret,       \* return value of Process (the exit status of main)
    trace,     \* the privileged steps made so far, with their outcomes
    last,      \* the most recent ParseOneCmdArg call: indicator, value, result
    longBits,  \* width of long / unsigned long of the build (ILP32 or LP64)
    pidMaxFile, \* content of /proc/sys/kernel/pid_max
    dcmi       \* the globals of dcmi_interface_api.h and the state of libdcmi.so

vars == <<pc, args, config, ns, fds, ret, trace, last, longBits, pidMaxFile, dcmi>>

\* The variables of the hook's command line and pipeline.
hookVars == <<pc, args, config, ns, fds, ret, trace, last, longBits, pidMaxFile>>

----------------------------------------------------------------------------
(* C integers *)

Base == 256 * 256

Limbs(bits) == bits \div 16

Zero(n) == [i \in 1..n |-> 0]

AllOnes(n) == [i \in 1..n |-> Base - 1]

\* v * m + c over the limbs of v; the carry out is the extra, last limb.
RECURSIVE MulAdd(_, _, _)
MulAdd(v, m, c) ==
    IF v = <<>> THEN <<c>>
    ELSE LET t == Head(v) * m + c
         IN  <<t % Base>> \o MulAdd(Tail(v), m, t \div Base)

\* The limbs of a small natural number n, n limbs wide.
RECURSIVE NatLimbs(_, _)
NatLimbs(x, n) ==
    IF n = 0 THEN <<>> ELSE <<x % Base>> \o NatLimbs(x \div Base, n - 1)

\* v widened with zero limbs (or cut) to n limbs.
Resize(v, n) == [i \in 1..n |-> IF i <= Len(v) THEN v[i] ELSE 0]

\* Conversion to a 32-bit unsigned int: the value modulo 2^32.
ToUInt32(v) == Resize(v, 2)

\* Conversion of 32 bits to a signed int (two's complement).
ToInt32(v) ==
    LET lo == Resize(v, 2)[1]
        hi == Resize(v, 2)[2]
    IN  IF hi >= Base \div 2 THEN (hi - Base) * Base + lo ELSE hi * Base + lo

\* Two's complement negation of the low 32 bits.
Neg32(v) ==
    LET lo == Resize(v, 2)[1]
        hi == Resize(v, 2)[2]
    IN  <<(Base - lo) % Base, (Base - 1 - hi + (IF lo = 0 THEN 1 ELSE 0)) % Base>>

IsZero(v) == \A i \in 1..Len(v) : v[i] = 0

----------------------------------------------------------------------------
(* C strings and <ctype.h> *)

DigitVal ==
    [c \in {"0", "1", "2", "3", "4", "5", "6", "7", "8", "9"} |->
        CASE c = "0" -> 0 [] c = "1" -> 1 [] c = "2" -> 2 [] c = "3" -> 3
          [] c = "4" -> 4 [] c = "5" -> 5 [] c = "6" -> 6 [] c = "7" -> 7
          [] c = "8" -> 8 [] c = "9" -> 9]

isdigit(c) == c \in DOMAIN DigitVal

isspace(c) == c \in {" ", "\n", "\t"}

\* The longest prefix of s whose characters all satisfy the test in set S.
RECURSIVE TakeWhileIn(_, _)
TakeWhileIn(s, S) ==
    IF s = <<>> \/ Head(s) \notin S THEN <<>>
    ELSE <<Head(s)>> \o TakeWhileIn(Tail(s), S)

DropN(s, n) == SubSeq(s, n + 1, Len(s))

Digits == DOMAIN DigitVal

\* The digit-accumulation loop of strtol/strtoul over a run of digits, in an
\* unsigned long of Len(acc) limbs: [val, ovf].  AccumulateStep continues with
\* r = acc * 10 + digit.
RECURSIVE Accumulate(_, _, _), AccumulateStep(_, _, _, _)
Accumulate(ds, acc, ovf) ==
    IF ds = <<>> THEN [val |-> acc, ovf |-> ovf]
    ELSE AccumulateStep(Tail(ds), acc, ovf, MulAdd(acc, 10, DigitVal[Head(ds)]))

AccumulateStep(rest, acc, ovf, r) ==
    IF ovf \/ r[Len(acc) + 1] # 0
    THEN Accumulate(rest, acc, TRUE)
    ELSE Accumulate(rest, SubSeq(r, 1, Len(acc)), FALSE)

\* Comparison a >= b of two unsigned values of the same number of limbs.
RECURSIVE LimbsGE(_, _)
LimbsGE(a, b) ==
    IF a = <<>> THEN TRUE
    ELSE LET n == Len(a)
         IN  IF a[n] # b[n] THEN a[n] > b[n]
             ELSE LimbsGE(SubSeq(a, 1, n - 1), SubSeq(b, 1, n - 1))

\* Two's complement negation over all the limbs of v.
NegW(v) == SubSeq(MulAdd([i \in 1..Len(v) |-> Base - 1 - v[i]], 1, 1), 1, Len(v))

\* The part of s that strtol/strtoul convert: white space skipped, an optional
\* sign, then the longest run of digits (possibly empty: the value is then 0).
Numeral(s) ==
    LET s1 == DropN(s, Len(TakeWhileIn(s, {" ", "\n", "\t"})))
        s2 == IF s1 # <<>> /\ Head(s1) \in {"+", "-"} THEN Tail(s1) ELSE s1
    IN  [neg |-> s1 # <<>> /\ Head(s1) = "-", digits |-> TakeWhileIn(s2, Digits)]

\* The result of strtoul from the sign and the accumulated digits a: on
\* overflow ULONG_MAX with errno ERANGE; a minus sign negates the converted
\* value in the unsigned type.  [val, erange].
UnsignedResult(neg, a) ==
    IF a.ovf THEN [val |-> AllOnes(Len(a.val)), erange |-> TRUE]
    ELSE [val |-> IF neg THEN NegW(a.val) ELSE a.val, erange |-> FALSE]

\* strtoul(s, NULL, 10) for an unsigned long of `bits` bits.
strtoul(s, bits) ==
    UnsignedResult(Numeral(s).neg,
                   Accumulate(Numeral(s).digits, Zero(Limbs(bits)), FALSE))

\* The result of strtol from the sign and the accumulated digits a, as sign
\* and magnitude: [neg, mag, erange].  It saturates at LONG_MAX / LONG_MIN with
\* errno ERANGE.
SignedResult(neg, a) ==
    LET w       == Len(a.val)
        top     == a.val[w] >= Base \div 2
        isMin   == a.val[w] = Base \div 2 /\ \A i \in 1..(w - 1) : a.val[i] = 0
        longMax == [i \in 1..w |-> IF i = w THEN Base \div 2 - 1 ELSE Base - 1]
        longMin == [i \in 1..w |-> IF i = w THEN Base \div 2 ELSE 0]
    IN  IF ~neg
        THEN IF a.ovf \/ top
             THEN [neg |-> FALSE, mag |-> longMax, erange |-> TRUE]
             ELSE [neg |-> FALSE, mag |-> a.val, erange |-> FALSE]
        ELSE IF a.ovf \/ (top /\ ~isMin)
             THEN [neg |-> TRUE, mag |-> longMin, erange |-> TRUE]
             ELSE [neg |-> ~IsZero(a.val), mag |-> a.val, erange |-> FALSE]

\* strtol(s, NULL, 10) for a long of `bits` bits.
strtol(s, bits) ==
    SignedResult(Numeral(s).neg,
                 Accumulate(Numeral(s).digits, Zero(Limbs(bits)), FALSE))

\* Conversion of a long to int, as in `args->pid = strtol(...)`: the low 32
\* bits of the two's complement value.
LongToInt(l) == IF l.neg THEN ToInt32(Neg32(l.mag)) ELSE ToInt32(l.mag)

\* The comparison `i >= l` of an int with a long (the int is promoted).
IntGELong(i, l) ==
    IF l.neg THEN i >= 0 \/ ~LimbsGE(NatLimbs(-(i + 1), Len(l.mag)), l.mag)
    ELSE i >= 0 /\ LimbsGE(NatLimbs(i, Len(l.mag)), l.mag)

----------------------------------------------------------------------------
(* Sizes of basic.h, scaled down *)

\* Size of the devices, rootfs and options buffers of struct CmdArgs.
BUF_SIZE == 24

\* Capacity of a MountList (files, dirs).
MAX_MOUNT_NR == 1

\* Capacity of ParsedConfig.devices, set by InitParsedConfig.
MAX_DEVICE_NR == 3

PATH_MAX == 4096

WHITE_LIST_NUM == 4

----------------------------------------------------------------------------
(* Paths and the file system *)

\* The number of characters of a path token.
TokLen(t) ==
    CASE t = "/" -> 1
      [] t = "." -> 1
      [] t = ".." -> 2
      [] t \in {"usr", "bin", "lib", "lnk", "new", "a b"} -> 3
      [] t \in {"dcmi", "loop"} -> 4
      [] t \in {"local", "lib64", "extra"} -> 5
      [] t \in {"Ascend", "driver", "rootfs"} -> 6
      [] t \in {"include", "npu-smi", "missing"} -> 7
      [] t = "LONGBUF" -> BUF_SIZE
      [] t = "LONGPATH" -> PATH_MAX
      [] OTHER -> 1

RECURSIVE strlenPath(_)
strlenPath(p) == IF p = <<>> THEN 0 ELSE TokLen(Head(p)) + strlenPath(Tail(p))

\* The names of a path, in order (what lies between its separators).
PathNames(p) == SelectSeq(p, LAMBDA t : t # "/")

\* The absolute path made of the given names.
RECURSIVE AbsPath(_)
AbsPath(names) ==
    IF names = <<>> THEN <<>> ELSE <<"/", Head(names)>> \o AbsPath(Tail(names))

\* The file system the hook runs on: directories, regular files and symbolic
\* links, each named by the names of its canonical absolute path.
FSDirs ==
    { <<>>, <<"usr">>, <<"usr", "local">>, <<"usr", "local", "Ascend">>,
      <<"usr", "local", "Ascend", "driver">>,
      <<"usr", "local", "Ascend", "driver", "lib64">>,
      <<"usr", "local", "Ascend", "driver", "lib">>,
      <<"usr", "local", "Ascend", "driver", "include">>,
      <<"usr", "local", "dcmi">>, <<"usr", "local", "bin">>,
      <<"rootfs">>, <<"LONGBUF">> }

FSFiles == { <<"usr", "local", "bin", "npu-smi">> }

FSLinks ==
    [l \in { <<"usr", "local", "lnk">>, <<"usr", "local", "loop">> } |->
        IF l = <<"usr", "local", "lnk">>
        THEN AbsPath(<<"usr", "local", "dcmi">>)
        ELSE AbsPath(<<"usr", "local", "loop">>)]

lstat(names) ==
    IF names \in FSDirs THEN "dir"
    ELSE IF names \in FSFiles THEN "file"
    ELSE IF names \in DOMAIN FSLinks THEN "link"
    ELSE "none"

\* The symbolic links realpath follows before it fails with ELOOP.  The file
\* system below has one link that reaches a directory in one step and one
\* that points to itself, so any limit above one gives the same outcomes.
MaxSymlinks == 8

\* The component walk of realpath: `cur` is the canonical prefix resolved so
\* far, `rest` the names still to resolve, `links` the symbolic links that may
\* still be followed.  [err, at]: the error ("OK" for none) and the path
\* reached, which on an error ends with the name that failed.
RECURSIVE Resolve(_, _, _)
Resolve(cur, rest, links) ==
    IF rest = <<>> THEN [err |-> "OK", at |-> cur]
    ELSE LET c    == Head(rest)
             cand == Append(cur, c)
             t    == lstat(cand)
         IN  IF c = "." THEN Resolve(cur, Tail(rest), links)
             ELSE IF c = ".."
             THEN Resolve(IF cur = <<>> THEN cur ELSE SubSeq(cur, 1, Len(cur) - 1),
                          Tail(rest), links)
             ELSE IF t = "none" THEN [err |-> "ENOENT", at |-> cand]
             ELSE IF t = "link"
             THEN IF links = 0 THEN [err |-> "ELOOP", at |-> cand]
                  ELSE Resolve(<<>>, PathNames(FSLinks[cand]) \o Tail(rest), links - 1)
             ELSE IF t = "file" /\ Tail(rest) # <<>>
             THEN [err |-> "ENOTDIR", at |-> cand]
             ELSE Resolve(cand, Tail(rest), links)

\* What realpath returns for the outcome r of the walk: [ok, errno, buf].  On
\* failure the content of the buffer is unspecified; rpbuf names what the C
\* library leaves there: the path up to the failing name ("partial") or the
\* caller's zeros ("untouched").
RealpathResult(r, rpbuf) ==
    IF r.err = "OK"
    THEN [ok |-> TRUE, errno |-> "OK",
          buf |-> IF r.at = <<>> THEN <<"/">> ELSE AbsPath(r.at)]
    ELSE [ok |-> FALSE, errno |-> r.err,
          buf |-> IF rpbuf = "partial" THEN AbsPath(r.at) ELSE <<>>]

\* realpath(path, resolved) with `resolved` zeroed by the caller.  A relative
\* path is resolved from the working directory, here the root.
realpath(path, rpbuf) ==
    IF path = <<>> THEN [ok |-> FALSE, errno |-> "ENOENT", buf |-> <<>>]
    ELSE RealpathResult(Resolve(<<>>, PathNames(path), MaxSymlinks), rpbuf)

\* IsValidChar of utils.c over the characters of one token: letters, digits,
\* '/', '.', '_' and '-' are valid.
IsValidChar(t) == t \notin {"a b", ",", " ", "+", "\n"}

\* CheckResolved without the strcmp of the resolved path with the input.
CheckResolved_NoCompare(filePath, r) ==
    IF ~r.ok /\ r.errno # "ENOENT" THEN FALSE
    ELSE TRUE

\* The tests of CheckFileLegality on the result r of realpath.
CheckResolved(filePath, r) ==
    IF ~r.ok /\ r.errno # "ENOENT" THEN FALSE
    ELSE IF r.buf # filePath THEN FALSE
    ELSE TRUE

CheckFileLegality(filePath, filePathLen, rpbuf) ==
    IF filePathLen > PATH_MAX \/ filePathLen <= 0 THEN FALSE
    ELSE IF \E i \in 1..Len(filePath) : ~IsValidChar(filePath[i]) THEN FALSE
    ELSE CheckResolved(filePath, realpath(filePath, rpbuf))

mountWhiteList ==
    << AbsPath(<<"usr", "local", "Ascend", "driver", "lib64">>),
       AbsPath(<<"usr", "local", "Ascend", "driver", "include">>),
       AbsPath(<<"usr", "local", "dcmi">>),
       AbsPath(<<"usr", "local", "bin", "npu-smi">>) >>

\* The name t is a prefix of the name u, character by character.
NamePrefix(t, u) == t = u \/ <<t, u>> \in {<<"lib", "lib64">>, <<".", "..">>}

\* CheckWhiteList comparing only the first strlen(fileName) characters
\* (strncmp for strcmp): a path that an entry starts with is accepted.
CheckWhiteList_Prefix(fileName) ==
    \E iLoop \in 1..WHITE_LIST_NUM :
        /\ fileName # <<>>
        /\ Len(fileName) <= Len(mountWhiteList[iLoop])
        /\ SubSeq(mountWhiteList[iLoop], 1, Len(fileName) - 1)
               = SubSeq(fileName, 1, Len(fileName) - 1)
        /\ NamePrefix(fileName[Len(fileName)], mountWhiteList[iLoop][Len(fileName)])

CheckWhiteList(fileName) ==
    \E iLoop \in 1..WHITE_LIST_NUM : mountWhiteList[iLoop] = fileName

----------------------------------------------------------------------------
(* The command-line parsers *)

\* `struct CmdArgs args = {0}` of Process.
NewCmdArgs ==
    [devices |-> <<>>, rootfs |-> <<>>, pid |-> 0, options |-> <<>>,
     files |-> <<>>, dirs |-> <<>>]

\* strcpy_s(dest, destMax, src) on a source of srcLen characters: the copy is
\* made only if the source and its terminator fit; otherwise dest is reset to
\* the empty string and an error is returned.
strcpy_s(destMax, src, srcLen) ==
    IF srcLen < destMax THEN [eok |-> TRUE, dest |-> src]
    ELSE [eok |-> FALSE, dest |-> <<>>]

\* DevicesCmdArgParser that keeps a devices string already stored: the first
\* occurrence of the flag wins.
DevicesCmdArgParser_KeepFirst(a, arg) ==
    IF \E iLoop \in 1..Len(arg) : ~isdigit(arg[iLoop]) /\ arg[iLoop] # ","
    THEN [ok |-> FALSE, args |-> a]
    ELSE LET c == strcpy_s(BUF_SIZE, arg, Len(arg))
         IN  [ok |-> c.eok,
              args |-> IF a.devices # <<>> THEN a ELSE [a EXCEPT !.devices = c.dest]]

DevicesCmdArgParser(a, arg) ==
    IF \E iLoop \in 1..Len(arg) : ~isdigit(arg[iLoop]) /\ arg[iLoop] # ","
    THEN [ok |-> FALSE, args |-> a]
    ELSE LET c == strcpy_s(BUF_SIZE, arg, Len(arg))
         IN  [ok |-> c.eok, args |-> [a EXCEPT !.devices = c.dest]]

\* fgets(buff, PATH_MAX, pFile) on a file of the given content: the first line
\* with its newline, at most PATH_MAX - 1 characters; NULL on an empty file.
fgets(content) ==
    LET line == TakeWhileIn(content, {c \in {content[i] : i \in 1..Len(content)} : c # "\n"})
        full == IF Len(line) < Len(content) THEN Append(line, "\n") ELSE line
    IN  SubSeq(full, 1, IF Len(full) < PATH_MAX - 1 THEN Len(full) ELSE PATH_MAX - 1)

\* The range and errno tests of PidCmdArgParser: a1 holds the converted pid,
\* l is the result of strtol on the argument, max that of strtol on pid_max.
PidInRange(a1, l, max) ==
    IF a1.pid < 0 \/ IntGELong(a1.pid, max) THEN [ok |-> FALSE, args |-> a1]
    ELSE IF l.erange \/ max.erange THEN [ok |-> FALSE, args |-> a1]
    ELSE [ok |-> TRUE, args |-> a1]

\* PidCmdArgParser after `args->pid = strtol(optarg, NULL, DECIMAL)`, whose
\* result is l: pid_max is read and tested.
PidReadMax(a1, l, bits, pidMax) ==
    LET got  == fgets(pidMax.content)
        buff == IF got # <<>> /\ got[Len(got)] = "\n"
                THEN SubSeq(got, 1, Len(got) - 1) ELSE got
    IN  IF ~pidMax.readable THEN [ok |-> FALSE, args |-> a1]
        ELSE IF got = <<>> THEN [ok |-> FALSE, args |-> a1]
        ELSE IF \E iLoop \in 1..Len(buff) : ~isdigit(buff[iLoop])
        THEN [ok |-> FALSE, args |-> a1]
        ELSE PidInRange(a1, l, strtol(buff, bits))

\* The long is stored into the int field pid.
PidStore(a, l, bits, pidMax) ==
    PidReadMax([a EXCEPT !.pid = LongToInt(l)], l, bits, pidMax)

\* pidMax is /proc/sys/kernel/pid_max: [readable, content]; it is not readable
\* when CheckExternalFile or fopen fails on it.  optarg is arg.
PidCmdArgParser(a, arg, bits, pidMax) ==
    PidStore(a, strtol(arg, bits), bits, pidMax)

RootfsCmdArgParser(a, arg, rpbuf) ==
    LET c  == strcpy_s(BUF_SIZE, arg, strlenPath(arg))
        a1 == [a EXCEPT !.rootfs = c.dest]
    IN  IF ~c.eok THEN [ok |-> FALSE, args |-> a1]
        ELSE [ok |-> CheckFileLegality(a1.rootfs, strlenPath(a1.rootfs), rpbuf),
              args |-> a1]

OPT_NODRV_VIRTUAL == <<"N", "O", "D", "R", "V", ",", "V", "I", "R", "T", "U", "A", "L">>

OPT_NODRV == <<"N", "O", "D", "R", "V">>

OPT_VIRTUAL == <<"V", "I", "R", "T", "U", "A", "L">>

\* s is a prefix of t.
IsPrefix(s, t) == Len(s) <= Len(t) /\ SubSeq(t, 1, Len(s)) = s

\* OptionsCmdArgParser comparing only the first strlen(arg) characters
\* (strncmp for strcmp): a prefix of an option string is accepted.
OptionsCmdArgParser_Prefix(a, arg) ==
    LET c  == strcpy_s(BUF_SIZE, arg, Len(arg))
        a1 == [a EXCEPT !.options = c.dest]
    IN  IF ~c.eok THEN [ok |-> FALSE, args |-> a1]
        ELSE [ok |-> \/ IsPrefix(a1.options, OPT_NODRV_VIRTUAL)
                     \/ IsPrefix(a1.options, OPT_NODRV)
                     \/ IsPrefix(a1.options, OPT_VIRTUAL),
              args |-> a1]

OptionsCmdArgParser(a, arg) ==
    LET c  == strcpy_s(BUF_SIZE, arg, Len(arg))
        a1 == [a EXCEPT !.options = c.dest]
    IN  IF ~c.eok THEN [ok |-> FALSE, args |-> a1]
        ELSE IF a1.options # OPT_NODRV_VIRTUAL /\ a1.options # OPT_NODRV
                /\ a1.options # OPT_VIRTUAL
        THEN [ok |-> FALSE, args |-> a1]
        ELSE [ok |-> TRUE, args |-> a1]

\* MountFileCmdArgParser without the test of files.count against
\* MAX_MOUNT_NR: an entry is written past the end of a full list.
MountFileCmdArgParser_NoLimit(a, arg, rpbuf) ==
    LET c   == strcpy_s(PATH_MAX, arg, strlenPath(arg))
        dst == c.dest
        a1  == [a EXCEPT !.files = Append(@, dst)]
    IN  IF ~c.eok THEN [ok |-> FALSE, args |-> a1]
        ELSE IF ~CheckFileLegality(dst, strlenPath(dst), rpbuf)
        THEN [ok |-> FALSE, args |-> a1]
        ELSE [ok |-> CheckWhiteList(dst), args |-> a1]

\* The count is advanced before the copy and the checks: a rejected entry
\* stays in the list.
MountFileCmdArgParser(a, arg, rpbuf) ==
    IF Len(a.files) = MAX_MOUNT_NR THEN [ok |-> FALSE, args |-> a]
    ELSE LET c   == strcpy_s(PATH_MAX, arg, strlenPath(arg))
             dst == c.dest
             a1  == [a EXCEPT !.files = Append(@, dst)]
         IN  IF ~c.eok THEN [ok |-> FALSE, args |-> a1]
             ELSE IF ~CheckFileLegality(dst, strlenPath(dst), rpbuf)
             THEN [ok |-> FALSE, args |-> a1]
             ELSE [ok |-> CheckWhiteList(dst), args |-> a1]

MountDirCmdArgParser(a, arg, rpbuf) ==
    IF Len(a.dirs) = MAX_MOUNT_NR THEN [ok |-> FALSE, args |-> a]
    ELSE LET c   == strcpy_s(PATH_MAX, arg, strlenPath(arg))
             dst == c.dest
             a1  == [a EXCEPT !.dirs = Append(@, dst)]
         IN  IF ~c.eok THEN [ok |-> FALSE, args |-> a1]
             ELSE IF ~CheckFileLegality(dst, strlenPath(dst), rpbuf)
             THEN [ok |-> FALSE, args |-> a1]
             ELSE [ok |-> CheckWhiteList(dst), args |-> a1]

\* A `const char *`: NULL, or a pointer to the string s.
NULL == [null |-> TRUE, s |-> <<>>]

Ptr(s) == [null |-> FALSE, s |-> s]

\* The indicator characters of g_cmdArgParsers.
g_cmdArgParsers == <<"d", "p", "r", "o", "f", "i">>

\* The return of ParseOneCmdArg for the parser's result r.
ParserReturn(r) == [ret |-> IF r.ok THEN 0 ELSE -1, args |-> r.args]

\* env: the build and the system the parsers run on ([bits, pidMax, rpbuf]).
\* [ret, args].
ParseOneCmdArg(a, indicator, value, env) ==
    IF value.null THEN [ret |-> -1, args |-> a]
    ELSE IF \A i \in 1..Len(g_cmdArgParsers) : g_cmdArgParsers[i] # indicator
    THEN [ret |-> -1, args |-> a]
    ELSE ParserReturn(
           CASE indicator = "d" -> DevicesCmdArgParser(a, value.s)
             [] indicator = "p" -> PidCmdArgParser(a, value.s, env.bits, env.pidMax)
             [] indicator = "r" -> RootfsCmdArgParser(a, value.s, env.rpbuf)
             [] indicator = "o" -> OptionsCmdArgParser(a, value.s)
             [] indicator = "f" -> MountFileCmdArgParser(a, value.s, env.rpbuf)
             [] indicator = "i" -> MountDirCmdArgParser(a, value.s, env.rpbuf))

\* IsCmdArgsValid without the test of pid.
IsCmdArgsValid_NoPid(a) == Len(a.devices) > 0 /\ strlenPath(a.rootfs) > 0

IsCmdArgsValid(a) == Len(a.devices) > 0 /\ strlenPath(a.rootfs) > 0 /\ a.pid > 0

----------------------------------------------------------------------------
(* DoPrepare *)

\* The longest prefix of s without the character c.
RECURSIVE TakeUntil(_, _)
TakeUntil(s, c) ==
    IF s = <<>> \/ Head(s) = c THEN <<>>
    ELSE <<Head(s)>> \o TakeUntil(Tail(s), c)

\* The tokens that successive strtok_s(…, ",", &context) calls return:
\* delimiters before a token are skipped, so no token is empty.
RECURSIVE Tokens(_)
Tokens(s) ==
    LET s1  == DropN(s, Len(TakeWhileIn(s, {","})))
        tok == TakeUntil(s1, ",")
    IN  IF s1 = <<>> THEN <<>>
        ELSE <<tok>> \o Tokens(DropN(s1, Len(tok) + 1))

\* The string left in the tokenized buffer: strtok_s ends the first token by
\* overwriting its delimiter with a terminator.
AfterStrtok(s) ==
    IF Tokens(s) = <<>> THEN s
    ELSE TakeWhileIn(s, {","}) \o Head(Tokens(s))

\* The while loop of ParseDeviceIDs over the remaining tokens: [ret, idList,
\* idListSize].  idList holds the entries written, idx = Len(idList).
\* ParseDeviceStore is the body from `idList[idx] = strtoul(…)` on, with r the
\* result of strtoul: the entry is assigned before errno is tested.
RECURSIVE ParseDeviceLoop(_, _, _, _), ParseDeviceStore(_, _, _, _, _)
\* ParseDeviceLoop with `idx > *idListSize` for `idx >= *idListSize`: one
\* entry is written past the capacity before the loop fails.
ParseDeviceLoop_OffByOne(tokens, idList, idListSize, bits) ==
    IF tokens = <<>>
    THEN [ret |-> 0, idList |-> idList, idListSize |-> Len(idList)]
    ELSE IF Len(idList) > idListSize
    THEN [ret |-> -1, idList |-> idList, idListSize |-> idListSize]
    ELSE ParseDeviceStore(Tail(tokens), idList, idListSize, bits,
                          strtoul(Head(tokens), bits))

ParseDeviceLoop(tokens, idList, idListSize, bits) ==
    IF tokens = <<>>
    THEN [ret |-> 0, idList |-> idList, idListSize |-> Len(idList)]
    ELSE IF Len(idList) >= idListSize
    THEN [ret |-> -1, idList |-> idList, idListSize |-> idListSize]
    ELSE ParseDeviceStore(Tail(tokens), idList, idListSize, bits,
                          strtoul(Head(tokens), bits))

ParseDeviceStore(rest, idList, idListSize, bits, r) ==
    IF r.erange
    THEN [ret |-> -1, idList |-> Append(idList, ToUInt32(r.val)),
          idListSize |-> idListSize]
    ELSE ParseDeviceLoop(rest, Append(idList, ToUInt32(r.val)), idListSize, bits)

ParseDeviceIDs(idListSize, devices, bits) ==
    ParseDeviceLoop(Tokens(devices), <<>>, idListSize, bits)

\* InitParsedConfig of options.c / basic.h.
InitParsedConfig ==
    [rootfs |-> <<>>, devices |-> <<>>, devicesNr |-> MAX_DEVICE_NR,
     containerNsPath |-> <<>>, cgroupPath |-> <<>>, originNsFd |-> -1,
     files |-> <<>>, dirs |-> <<>>]

\* The descriptor number open() returns for the namespace file.
NsFd == 3

\* DoPrepare after ParseDeviceIDs returned p: the namespace and cgroup paths
\* are looked up and the caller's namespace file is opened.  c2 is the config
\* and a1 the arguments after ParseDeviceIDs.
DoPrepareLookup(a1, c2, env) ==
    LET c3 == [c2 EXCEPT !.containerNsPath = <<"proc", a1.pid, "ns", "mnt">>]
        c4 == [c3 EXCEPT !.cgroupPath = <<"cgroup", a1.pid>>]
        c6 == [c4 EXCEPT !.originNsFd = NsFd, !.files = a1.files, !.dirs = a1.dirs]
    IN  IF ~env.nsPath
        THEN [ret |-> -1, config |-> c2, args |-> a1, opened |-> FALSE]
        ELSE IF ~env.cgroupPath
        THEN [ret |-> -1, config |-> c3, args |-> a1, opened |-> FALSE]
        ELSE IF ~env.selfNsPath \/ ~env.open
        THEN [ret |-> -1, config |-> c4, args |-> a1, opened |-> FALSE]
        ELSE [ret |-> 0, config |-> c6, args |-> a1, opened |-> TRUE]

\* DoPrepare from the return of ParseDeviceIDs, p, on.
DoPrepareParsed(a1, c1, p, env) ==
    IF p.ret < 0
    THEN [ret |-> -1, opened |-> FALSE, args |-> a1,
          config |-> [c1 EXCEPT !.devices = p.idList, !.devicesNr = p.idListSize]]
    ELSE DoPrepareLookup(
           a1, [c1 EXCEPT !.devices = p.idList, !.devicesNr = p.idListSize], env)

\* env gives the outcomes of the system: [nsPath, cgroupPath, selfNsPath,
\* open] are TRUE where GetNsPath, GetCgroupPath, GetSelfNsPath and open
\* succeed.  [ret, config, args, opened].
DoPrepare(a, cfg, bits, env) ==
    IF ~strcpy_s(BUF_SIZE, a.rootfs, strlenPath(a.rootfs)).eok
    THEN [ret |-> -1, config |-> [cfg EXCEPT !.rootfs = <<>>], args |-> a,
          opened |-> FALSE]
    ELSE DoPrepareParsed([a EXCEPT !.devices = AfterStrtok(@)],
                         [cfg EXCEPT !.rootfs = a.rootfs],
                         ParseDeviceIDs(cfg.devicesNr, a.devices, bits), env)

----------------------------------------------------------------------------
(* The system calls of ns.c as the pipeline uses them *)

\* The namespace the caller is in after EnterNsByPath(containerNsPath, …).
EnterNsByPath(nsNow, ok) == IF ok THEN "container" ELSE nsNow

\* The namespace the caller is in after EnterNsByFd(fd, …): setns succeeds
\* only on an open descriptor, and enters the namespace it refers to.
EnterNsByFd(nsNow, tab, fd, ok) ==
    IF ok /\ tab.open /\ fd = NsFd THEN tab.refers ELSE nsNow

\* open() of the caller's own namespace file succeeded.
OpenNs(tab, nsNow) ==
    [tab EXCEPT !.opens = @ + 1, !.open = TRUE, !.refers = nsNow]

\* close(fd): closing a descriptor that is not open is counted as a bad close.
close(tab, fd) ==
    IF tab.open /\ fd = NsFd
    THEN [tab EXCEPT !.closes = @ + 1, !.open = FALSE]
    ELSE [tab EXCEPT !.badCloses = @ + 1]

Event(op, ok) == [op |-> op, ok |-> ok]

----------------------------------------------------------------------------
(* Process and SetupContainer *)

\* g_cmdOpts: the long options, each with a required argument.
g_cmdOpts ==
    [n \in {"devices", "pid", "rootfs", "options", "mount-file", "mount-dir"} |->
        CASE n = "devices" -> "d" [] n = "pid" -> "p" [] n = "rootfs" -> "r"
          [] n = "options" -> "o" [] n = "mount-file" -> "f" [] n = "mount-dir" -> "i"]

\* The short options of the option string "d:p:r:o:f:i" that take an argument,
\* and those that take none.
ShortWithArg == {"d", "p", "r", "o", "f"}

ShortNoArg == {"i"}

\* getopt_long on the next option of argv, item = [form, name, arg]: arg is
\* the word that follows the option (NULL if none).  [c, optarg].  For an
\* option that takes no argument the C library either sets optarg to NULL or
\* leaves it as the previous call left it (optargNow): keepsOptarg tells
\* which.
getopt_long(item, optargNow, keepsOptarg) ==
    IF item.form = "long"
    THEN IF item.name \in DOMAIN g_cmdOpts /\ ~item.arg.null
         THEN [c |-> g_cmdOpts[item.name], optarg |-> item.arg]
         ELSE [c |-> "?", optarg |-> NULL]
    ELSE IF item.name \in ShortWithArg /\ ~item.arg.null
         THEN [c |-> item.name, optarg |-> item.arg]
         ELSE IF item.name \in ShortNoArg
         THEN [c |-> item.name, optarg |-> IF keepsOptarg THEN optargNow ELSE NULL]
         ELSE [c |-> "?", optarg |-> NULL]

NoCall == [item |-> [form |-> "none", name |-> "", arg |-> NULL],
           c |-> "", value |-> NULL, ret |-> 0]

\* GetoptReturn without the `return -1` after a failed ParseOneCmdArg: the loop
\* goes on to the next option.
GetoptReturn_NoReturn(item, g, r) ==
    /\ args' = r.args
    /\ last' = [item |-> item, c |-> g.c, value |-> g.optarg, ret |-> r.ret]
    /\ pc' = "getopt"
    /\ ret' = ret

\* The end of one iteration of the option loop: r is what ParseOneCmdArg
\* returned for the option g that getopt_long found.
GetoptReturn(item, g, r) ==
    /\ args' = r.args
    /\ last' = [item |-> item, c |-> g.c, value |-> g.optarg, ret |-> r.ret]
    /\ IF r.ret < 0
       THEN pc' = "done" /\ ret' = -1
       ELSE pc' = "getopt" /\ ret' = ret

GetoptParse(item, g, env) ==
    GetoptReturn(item, g, ParseOneCmdArg(args, g.c, g.optarg, env))

\* One iteration of the option loop of Process: getopt_long returns an option of
\* the command line and ParseOneCmdArg handles it.
ProcessGetopt(Inputs) ==
    /\ pc = "getopt"
    /\ \E item \in Inputs, rpbuf \in {"partial", "untouched"}, keepsOptarg \in BOOLEAN :
         GetoptParse(item, getopt_long(item, last.value, keepsOptarg),
                     [bits |-> longBits, pidMax |-> pidMaxFile, rpbuf |-> rpbuf])
    /\ UNCHANGED <<config, ns, fds, trace, longBits, pidMaxFile, dcmi>>

\* getopt_long returns -1: the loop ends and the arguments are verified.
ProcessValidate ==
    /\ pc = "getopt"
    /\ IF IsCmdArgsValid(args)
       THEN pc' = "prepare" /\ ret' = ret
       ELSE pc' = "done" /\ ret' = -1
    /\ UNCHANGED <<args, config, ns, fds, trace, last, longBits, pidMaxFile, dcmi>>

\* SetupContainer at the return of DoPrepare, whose result is r.
PrepareReturn(r) ==
    /\ config' = r.config
    /\ args' = r.args
    /\ fds' = IF r.opened THEN OpenNs(fds, ns) ELSE fds
    /\ trace' = trace \o (IF r.opened THEN <<Event("open", TRUE)>> ELSE <<>>)
                      \o <<Event("DoPrepare", r.ret = 0)>>
    /\ IF r.ret < 0
       THEN pc' = "done" /\ ret' = -1
       ELSE pc' = "enterns" /\ ret' = ret

\* SetupContainer up to the return of DoPrepare.
SetupDoPrepare ==
    /\ pc = "prepare"
    /\ \E env \in [nsPath : BOOLEAN, cgroupPath : BOOLEAN,
                   selfNsPath : BOOLEAN, open : BOOLEAN] :
         PrepareReturn(DoPrepare(args, InitParsedConfig, longBits, env))
    /\ UNCHANGED <<ns, last, longBits, pidMaxFile, dcmi>>

\* FailAndClose without the close: the descriptor is left open.
FailAndClose_Leak ==
    /\ fds' = fds
    /\ pc' = "done"
    /\ ret' = -1

\* The failure return of SetupContainer after DoPrepare succeeded:
\* close(config.originNsFd); return -1.
FailAndClose ==
    /\ fds' = close(fds, config.originNsFd)
    /\ pc' = "done"
    /\ ret' = -1

SetupEnterNs ==
    /\ pc = "enterns"
    /\ \E ok \in BOOLEAN :
         /\ ns' = EnterNsByPath(ns, ok)
         /\ trace' = Append(trace, Event("EnterNsByPath", ok))
         /\ IF ok
            THEN pc' = "mounting" /\ UNCHANGED <<fds, ret>>
            ELSE FailAndClose
    /\ UNCHANGED <<args, config, last, longBits, pidMaxFile, dcmi>>

\* SetupDoMounting with the result of DoMounting ignored: SetupCgroup runs
\* after a failed mounting.
SetupDoMounting_Continue ==
    /\ pc = "mounting"
    /\ \E ok \in BOOLEAN :
         /\ trace' = Append(trace, Event("DoMounting", ok))
         /\ pc' = "cgroup"
    /\ UNCHANGED <<args, config, ns, fds, ret, last, longBits, pidMaxFile, dcmi>>

SetupDoMounting ==
    /\ pc = "mounting"
    /\ \E ok \in BOOLEAN :
         /\ trace' = Append(trace, Event("DoMounting", ok))
         /\ IF ok
            THEN pc' = "cgroup" /\ UNCHANGED <<fds, ret>>
            ELSE FailAndClose
    /\ UNCHANGED <<args, config, ns, last, longBits, pidMaxFile, dcmi>>

SetupCgroupStep ==
    /\ pc = "cgroup"
    /\ \E ok \in BOOLEAN :
         /\ trace' = Append(trace, Event("SetupCgroup", ok))
         /\ IF ok
            THEN pc' = "restore" /\ UNCHANGED <<fds, ret>>
            ELSE FailAndClose
    /\ UNCHANGED <<args, config, ns, last, longBits, pidMaxFile, dcmi>>

\* SetupRestore with the result of EnterNsByFd ignored: 0 is returned even when
\* the original namespace was not restored.
SetupRestore_IgnoreFailure ==
    /\ pc = "restore"
    /\ \E ok \in BOOLEAN :
         /\ ns' = EnterNsByFd(ns, fds, config.originNsFd, ok)
         /\ trace' = Append(trace, Event("EnterNsByFd", ok))
         /\ fds' = close(fds, config.originNsFd)
         /\ pc' = "done"
         /\ ret' = 0
    /\ UNCHANGED <<args, config, last, longBits, pidMaxFile, dcmi>>

\* SetupRestore without the call of EnterNsByFd: the descriptor is closed and
\* 0 returned from inside the container's namespace.
SetupRestore_NoRestore ==
    /\ pc = "restore"
    /\ fds' = close(fds, config.originNsFd)
    /\ pc' = "done"
    /\ ret' = 0
    /\ UNCHANGED <<args, config, ns, trace, last, longBits, pidMaxFile, dcmi>>

\* Back to the original namespace, then close and return.
SetupRestore ==
    /\ pc = "restore"
    /\ \E ok \in BOOLEAN :
         /\ ns' = EnterNsByFd(ns, fds, config.originNsFd, ok)
         /\ trace' = Append(trace, Event("EnterNsByFd", ok))
         /\ IF ok
            THEN /\ fds' = close(fds, config.originNsFd)
                 /\ pc' = "done"
                 /\ ret' = 0
            ELSE FailAndClose
    /\ UNCHANGED <<args, config, last, longBits, pidMaxFile, dcmi>>

SetupContainer ==
    \/ SetupDoPrepare
    \/ SetupEnterNs
    \/ SetupDoMounting
    \/ SetupCgroupStep
    \/ SetupRestore

----------------------------------------------------------------------------
(* dcmi_interface_api.h: the binding of libdcmi.so *)

SO_NOT_FOUND == -99999

FUNCTION_NOT_FOUND == -99998

SUCCESS == 0

ERROR_UNKNOWN == -99997

SO_NOT_CORRECT == -99996

\* The successful dlopen calls of one behaviour.
MaxLoads == 2

\* The symbols dcmiInit_dl resolves, one per wrapper.
Symbols ==
    { "dcmi_init", "dcmi_get_card_num_list", "dcmi_get_device_num_in_card",
      "dcmi_get_device_logic_id", "dcmi_create_vdevice", "dcmi_set_destroy_vdevice",
      "dcmi_get_device_logicid_from_phyid" }

\* What the functions of the vendor library return.
VendorResults == {0, -1}

\* dcmiHandle: "NULL" or "h", the handle of libdcmi.so.  func: each name##_func
\* pointer, "NULL", "fn" (the function of the loaded library) or "stale" (its
\* address after the library was unloaded).  refs: the references the
\* dynamic linker holds on the library, one per dlopen not yet closed.
\* dlopens, dlcloses: the successful dlopen calls and the dlclose calls made.
\* staleCloses: the dlclose calls made on a handle with no reference left.
\* resolved: the symbols the most recent dcmiInit_dl resolved.
\* call: the last operation, its symbol and what it returned.  crashed: the
\* process was killed by a call through a pointer into unloaded memory.
DcmiInitial ==
    [dcmiHandle |-> "NULL", func |-> [f \in Symbols |-> "NULL"], refs |-> 0,
     dlopens |-> 0, dlcloses |-> 0, staleCloses |-> 0, resolved |-> {},
     call |-> [op |-> "none", sym |-> "", result |-> 0], crashed |-> FALSE]

\* The state of the dynamic linker after dlclose(handle) returned r: once the
\* last reference is gone, the library is unloaded and the addresses dlsym
\* returned dangle.  A dlclose that fails on a live handle changes nothing.
dlclose(d, r) ==
    IF d.refs = 0
    THEN [d EXCEPT !.dlcloses = @ + 1, !.staleCloses = @ + 1]
    ELSE IF r # 0 THEN [d EXCEPT !.dlcloses = @ + 1]
    ELSE [d EXCEPT !.dlcloses = @ + 1, !.refs = @ - 1,
                   !.func = [f \in Symbols |->
                               IF d.refs = 1 /\ d.func[f] = "fn" THEN "stale"
                               ELSE d.func[f]]]

\* dlsym(dcmiHandle, name): the function, or NULL for a symbol the library
\* does not export.
dlsym(exported, name) == IF name \in exported THEN "fn" ELSE "NULL"

\* dcmiInit_dl: dlopenOk and dlinfoOk are the outcomes of dlopen and dlinfo,
\* exported the symbols of the library found.
dcmiInit_dl ==
    /\ ~dcmi.crashed
    /\ dcmi.dlopens < MaxLoads
    /\ \E dlopenOk \in BOOLEAN, dlinfoOk \in BOOLEAN :
       \E exported \in (IF dlopenOk /\ dlinfoOk THEN SUBSET Symbols ELSE {{}}) :
         dcmi' =
           IF ~dlopenOk
           THEN [dcmi EXCEPT !.dcmiHandle = "NULL", !.resolved = {},
                             !.call = [op |-> "dcmiInit_dl", sym |-> "dlopen",
                                       result |-> SO_NOT_FOUND]]
           ELSE IF ~dlinfoOk
           THEN [dcmi EXCEPT !.dcmiHandle = "h", !.refs = @ + 1, !.dlopens = @ + 1,
                             !.resolved = {},
                             !.call = [op |-> "dcmiInit_dl", sym |-> "dlinfo",
                                       result |-> SO_NOT_CORRECT]]
           ELSE [dcmi EXCEPT !.dcmiHandle = "h", !.refs = @ + 1, !.dlopens = @ + 1,
                             !.func = [f \in Symbols |-> dlsym(exported, f)],
                             !.resolved = exported,
                             !.call = [op |-> "dcmiInit_dl", sym |-> "",
                                       result |-> SUCCESS]]
    /\ UNCHANGED hookVars

\* dcmiShutDown: dlcloseRet is what dlclose returns.  dlclose on a handle
\* that holds no reference has undefined behaviour: it may return anything
\* or crash.
dcmiShutDown ==
    /\ ~dcmi.crashed
    /\ dcmi.dlcloses <= MaxLoads
    /\ IF dcmi.dcmiHandle = "NULL"
       THEN dcmi' = [dcmi EXCEPT !.call = [op |-> "dcmiShutDown", sym |-> "",
                                           result |-> SUCCESS]]
       ELSE \E dlcloseRet \in {0, -1}, crash \in BOOLEAN :
              /\ crash => dcmi.refs = 0
              /\ dcmi' = [dlclose(dcmi, dlcloseRet) EXCEPT
                            !.crashed = crash,
                            !.call = [op |-> "dcmiShutDown", sym |-> "dlclose",
                                      result |-> IF dlcloseRet # 0 THEN ERROR_UNKNOWN
                                                 ELSE SUCCESS]]
    /\ UNCHANGED hookVars

\* A wrapper, that is CALL_FUNC(name, …): r is what the function of the
\* library returns.  A call through a stale pointer has undefined behaviour:
\* it may return anything or crash.
CALL_FUNC(name) ==
    /\ ~dcmi.crashed
    /\ IF dcmi.func[name] = "NULL"
       THEN dcmi' = [dcmi EXCEPT !.call = [op |-> "CALL_FUNC", sym |-> name,
                                           result |-> FUNCTION_NOT_FOUND]]
       ELSE \E r \in VendorResults, crash \in BOOLEAN :
              /\ crash => dcmi.func[name] = "stale"
              /\ dcmi' = [dcmi EXCEPT !.crashed = crash,
                                      !.call = [op |-> "CALL_FUNC", sym |-> name,
                                                result |-> r]]
    /\ UNCHANGED hookVars

\* A call of one of the seven wrappers.
Wrapper == \E name \in Symbols : CALL_FUNC(name)

----------------------------------------------------------------------------
(* Command lines and systems *)

\* Bounds of the enumerated argument strings.
MaxDevLen == 3

MaxPidLen == 3

\* All strings over the alphabet A of at most n characters.
StringsUpTo(A, n) == UNION { [1..k -> A] : k \in 0..n }

Str_0_1 == <<"0", ",", "1">>

Str_1_2_3 == <<"1", ",", "2", ",", "3">>

Str_1_2_a == <<"1", ",", "2", ",", "a">>

Str_Overflow == <<"9", "9", "9", "9", "9", "9", "9", "9", "9", "9", "9", "9", "9", "9">>

Str_2p32 == <<"4", "2", "9", "4", "9", "6", "7", "2", "9", "6">>

Str_1 == <<"1">>

Str_2p32p1 == <<"4", "2", "9", "4", "9", "6", "7", "2", "9", "7">>

\* One id more than the device list holds: "1,1,…,1".
Str_TooManyIds == [i \in 1..(2 * MAX_DEVICE_NR + 1) |-> IF i % 2 = 1 THEN "1" ELSE ","]

\* A string of digits that does not fit a buffer of BUF_SIZE characters.
Str_TooLong == [i \in 1..BUF_SIZE |-> "1"]

PidMax32768 == [readable |-> TRUE, content |-> <<"3", "2", "7", "6", "8", "\n">>]

PidMax301 == [readable |-> TRUE, content |-> <<"3", "0", "1", "\n">>]

PidMaxUnreadable == [readable |-> FALSE, content |-> <<>>]

PidMaxEmpty == [readable |-> TRUE, content |-> <<>>]

PidMaxGarbled == [readable |-> TRUE, content |-> <<"m", "a", "x", "\n">>]

Opt(form, name, s) == [form |-> form, name |-> name, arg |-> Ptr(s)]

Rootfs == AbsPath(<<"rootfs">>)

\* The options of the command lines of Spec.
ArgInputs ==
    { Opt("long", "devices", s) : s \in {Str_0_1, Str_1_2_a, Str_Overflow} }
    \cup { Opt("long", "pid", s) : s \in {Str_1, <<"0">>, <<"-", "1">>, <<"3", "2", "7", "6", "8">>, Str_2p32p1} }
    \cup { Opt("long", "rootfs", s) :
             s \in {Rootfs, AbsPath(<<"usr", "local", "lnk">>), <<>>} }
    \cup { Opt("long", "options", s) :
             s \in {OPT_NODRV_VIRTUAL, OPT_NODRV, OPT_VIRTUAL, <<>>,
                    <<"V", "I", "R", "T", "U", "A", "L", ",", "N", "O", "D", "R", "V">>, <<"n", "o", "d", "r", "v">>, <<"N", "O", "D", "R">>, <<"N", "O", "D", "R", "V", "X">>} }
    \cup { Opt("long", "mount-file", s) :
             s \in {mountWhiteList[4],
                    AbsPath(<<"usr", "local", "Ascend", "driver", "lib">>)} }
    \cup { Opt("long", "mount-dir", s) :
             s \in {mountWhiteList[1],
                    AbsPath(<<"usr", "local", "Ascend", "driver", "lib">>)} }
    \cup { Opt("short", "x", Rootfs),
           [form |-> "long", name |-> "pid", arg |-> NULL] }

\* The scalar options that let an invocation reach SetupContainer.
PlainInputs ==
    { Opt("long", "devices", Str_0_1), Opt("long", "pid", Str_1),
      Opt("long", "rootfs", Rootfs) }

\* Devices strings: every string of at most MaxDevLen characters over two
\* digits, the separator and a letter, and the strings at the limits.
DeviceInputs ==
    { Opt("long", "devices", s) :
        s \in StringsUpTo({"1", "2", ",", "a"}, MaxDevLen)
              \cup {Str_1_2_3, Str_1_2_a, Str_Overflow, Str_2p32, <<"4", "2", "9", "4", "9", "6", "7", "2", "9", "5">>,
                    Str_TooManyIds, Str_TooLong} }

\* Pid strings: every string of at most MaxPidLen characters over three
\* digits and the minus sign, and the strings at the limits.
PidInputs ==
    { Opt("long", "pid", s) :
        s \in StringsUpTo({"0", "1", "3", "-"}, MaxPidLen)
              \cup {<<"3", "2", "7", "6", "7">>, <<"3", "2", "7", "6", "8">>, Str_2p32p1, Str_2p32, <<"2", "1", "4", "7", "4", "8", "3", "6", "4", "8">>, <<"9", "9", "9", "9", "9", "9", "9", "9", "9", "9", "9", "9", "9", "9", "9", "9", "9", "9", "9", "9">>,
                    <<"1", "2", "a">>, <<"+", "1">>} }

\* Mount paths: the whitelist entries, paths near them, and paths that the
\* path check refuses.
MountPaths ==
    { mountWhiteList[i] : i \in 1..WHITE_LIST_NUM }
    \cup { AbsPath(<<"usr", "local", "Ascend", "driver", "lib">>),
           AbsPath(<<"usr", "local", "Ascend", "driver">>),
           AbsPath(<<"usr", "local", "Ascend", "driver", "lib64", "extra">>),
           AbsPath(<<"usr", "local", "lnk">>),
           AbsPath(<<"usr", "local", "loop">>),
           AbsPath(<<"usr", "local", "..", "local", "dcmi">>),
           AbsPath(<<"usr", "local", ".", "dcmi">>),
           AbsPath(<<"usr", "a b">>),
           AbsPath(<<"usr", "local", "bin", "npu-smi", "extra">>),
           AbsPath(<<"missing", "extra">>),
           AbsPath(<<"LONGPATH">>),
           Append(AbsPath(<<"usr", "local", "dcmi">>), "/"),
           Tail(AbsPath(<<"usr", "local", "dcmi">>)),
           <<>> }

MountInputs ==
    { Opt("long", n, s) : n \in {"mount-file", "mount-dir"}, s \in MountPaths }
    \cup { Opt("short", "f", mountWhiteList[4]), Opt("short", "i", mountWhiteList[1]) }

InitWith(bitsSet, pidMaxSet) ==
    /\ pc = "getopt"
    /\ args = NewCmdArgs
    /\ config = InitParsedConfig
    /\ ns = "origin"
    /\ fds = [opens |-> 0, closes |-> 0, badCloses |-> 0, open |-> FALSE,
              refers |-> "none"]
    /\ ret = 0
    /\ trace = <<>>
    /\ last = NoCall
    /\ longBits \in bitsSet
    /\ pidMaxFile \in pidMaxSet
    /\ dcmi = DcmiInitial

Init == InitWith({32, 64}, {PidMax32768, PidMaxUnreadable})

Next ==
    \/ ProcessGetopt(ArgInputs)
    \/ ProcessValidate
    \/ SetupContainer

\* Command lines of any options of ArgInputs, in any order.
Spec == Init /\ [][Next]_vars

InitDevices == InitWith({32, 64}, {PidMax32768})

NextDevices ==
    \/ last.c # "d" /\ ProcessGetopt(PlainInputs \cup DeviceInputs)
    \/ ProcessValidate
    \/ SetupContainer

\* Command lines that end with one --devices option.
SpecDevices == InitDevices /\ [][NextDevices]_vars

InitPid ==
    InitWith({32, 64},
             {PidMax32768, PidMax301, PidMaxUnreadable, PidMaxEmpty, PidMaxGarbled})

NextPid ==
    \/ last.c # "p" /\ ProcessGetopt(PlainInputs \cup PidInputs)
    \/ ProcessValidate
    \/ SetupContainer

\* Command lines that end with one --pid option.
SpecPid == InitPid /\ [][NextPid]_vars

InitMount == InitWith({64}, {PidMax32768})

NextMount ==
    \/ last.c \notin {"f", "i"} /\ ProcessGetopt(PlainInputs)
    \/ ProcessGetopt(MountInputs)
    \/ ProcessValidate
    \/ SetupContainer

\* Command lines whose mount options follow the scalar options.
SpecMount == InitMount /\ [][NextMount]_vars

\* Each of the six flags with a valid value, in its long and its short form.
FormInputs ==
    { Opt(f, IF f = "long" THEN o[1] ELSE o[2], o[3]) :
        f \in {"long", "short"},
        o \in { <<"devices", "d", Str_0_1>>, <<"pid", "p", Str_1>>,
                <<"rootfs", "r", Rootfs>>, <<"options", "o", OPT_NODRV>>,
                <<"mount-file", "f", mountWhiteList[4]>>,
                <<"mount-dir", "i", mountWhiteList[1]>> } }

InitForms == InitWith({32, 64}, {PidMax32768})

NextForms ==
    \/ ProcessGetopt(FormInputs)
    \/ ProcessValidate
    \/ SetupContainer

\* Command lines of valid options in long and short forms, in any order.
SpecForms == InitForms /\ [][NextForms]_vars

\* Paths for the path check: those of MountPaths, and paths under the
\* existing directory /rootfs and behind the link /usr/local/lnk.
CheckedPaths ==
    MountPaths
    \cup { Rootfs,
           AbsPath(<<"rootfs", "new">>),
           AbsPath(<<"rootfs", "new", "extra">>),
           AbsPath(<<"usr", "local", "lnk", "new">>),
           AbsPath(<<"rootfs", "..", "rootfs">>),
           AbsPath(<<"LONGBUF">>),
           <<"/", "rootfs", "/", "/", "new">> }

PathInputs ==
    { Opt("long", n, s) : n \in {"rootfs", "mount-file", "mount-dir"}, s \in CheckedPaths }

InitPaths == InitWith({64}, {PidMax32768})

NextPaths ==
    \/ last.c \notin {"r", "f", "i"} /\ ProcessGetopt(PlainInputs \cup PathInputs)
    \/ last.c = "r" /\ ProcessGetopt({Opt("long", "devices", Str_0_1), Opt("long", "pid", Str_1)})
    \/ ProcessValidate
    \/ SetupContainer

\* Command lines with one --rootfs, --mount-file or --mount-dir option.
SpecPaths == InitPaths /\ [][NextPaths]_vars

\* Scalar options, valid and invalid, for command lines that repeat a flag.
RepeatInputs ==
    { Opt("long", "devices", s) : s \in {Str_0_1, Str_1_2_a} }
    \cup { Opt("long", "pid", s) : s \in {Str_1, <<"3">>, <<"-", "1">>} }
    \cup { Opt("long", "rootfs", s) :
             s \in {Rootfs, AbsPath(<<"rootfs", "new">>), AbsPath(<<"usr", "local", "lnk">>)} }
    \cup { Opt("long", "options", s) : s \in {OPT_NODRV, OPT_VIRTUAL, <<"n", "o", "d", "r", "v">>} }

InitRepeat == InitWith({32, 64}, {PidMax32768})

NextRepeat ==
    \/ last = NoCall /\ ProcessGetopt({Opt("long", "devices", Str_1_2_3)})
    \/ last # NoCall /\ ProcessGetopt(RepeatInputs)
    \/ ProcessValidate
    \/ SetupContainer

\* Command lines that start with --devices 1,2,3 and go on with any scalar
\* options, repeated or not.
SpecRepeat == InitRepeat /\ [][NextRepeat]_vars

InitDcmi == InitWith({64}, {PidMax32768})

NextDcmi ==
    \/ dcmiInit_dl
    \/ dcmiShutDown
    \/ Wrapper

\* Any sequence of dcmiInit_dl, dcmiShutDown and wrapper calls.
SpecDcmi == InitDcmi /\ [][NextDcmi]_vars

----------------------------------------------------------------------------
(* Properties of the pipeline *)

InTrace(e) == \E i \in 1..Len(trace) : trace[i] = e

Attempted(op) == \E i \in 1..Len(trace) : trace[i].op = op

\* The steps that touch namespaces or act inside the container's namespace.
PrivilegedOps == {"open", "EnterNsByPath", "EnterNsByFd", "DoMounting", "SetupCgroup"}

Untouched ==
    /\ \A i \in 1..Len(trace) : trace[i].op \notin PrivilegedOps
    /\ fds.opens = 0
    /\ ns = "origin"

\* The trace of an invocation in which every step of SetupContainer succeeded.
FullTrace ==
    << Event("open", TRUE), Event("DoPrepare", TRUE), Event("EnterNsByPath", TRUE),
       Event("DoMounting", TRUE), Event("SetupCgroup", TRUE),
       Event("EnterNsByFd", TRUE) >>

\* C1: when DoMounting or SetupCgroup fails after the container's namespace
\* was entered, the invocation returns nonzero, has attempted EnterNsByFd and
\* the caller is back in its original namespace.
C1_RestoreAttemptedOnFailure ==
    (pc = "done" /\ (InTrace(Event("DoMounting", FALSE))
                     \/ InTrace(Event("SetupCgroup", FALSE))))
        => (ret # 0 /\ Attempted("EnterNsByFd") /\ ns = "origin")

\* C2: the descriptor of the original namespace is never closed when it is
\* not open, it stays open while SetupContainer uses it, and once the
\* invocation has ended it has been closed exactly as often as it was opened.
C2_DescriptorReleasedOnce ==
    /\ fds.badCloses = 0
    /\ fds.closes <= fds.opens
    /\ fds.opens <= 1
    /\ pc \in {"enterns", "mounting", "cgroup", "restore"}
          => (fds.open /\ fds.opens = 1 /\ fds.closes = 0)
    /\ pc = "done" => (~fds.open /\ fds.closes = fds.opens)
    /\ (pc = "done" /\ InTrace(Event("open", TRUE))) => fds.closes = 1

\* A failing path on which the descriptor was opened and released: the
\* restore itself failed.
C2_Witness ==
    /\ pc = "done"
    /\ InTrace(Event("EnterNsByFd", FALSE))
    /\ fds.opens = 1 /\ fds.closes = 1 /\ ~fds.open

\* The invocation ended because an option was rejected or the required fields
\* are missing.
ValidationFailed == pc = "done" /\ (last.ret < 0 \/ ~IsCmdArgsValid(args))

\* C3: when argument validation fails, Process returns failure and no
\* namespace was entered, the descriptor was not opened, and neither
\* DoMounting nor SetupCgroup ran.
C3_ValidationFailureTouchesNothing ==
    ValidationFailed => (ret = -1 /\ Untouched)

\* An unrecognized option ended the invocation after other options were
\* accepted.
C3_Witness ==
    /\ ValidationFailed
    /\ last.c = "?"
    /\ args.pid > 0
    /\ ret = -1

\* The decimal value of the digit string tok does not fit 32 bits.
OverflowsUInt32(tok) == Accumulate(tok, Zero(2), FALSE).ovf

HasOverflowToken(devices) ==
    \E i \in 1..Len(Tokens(devices)) : OverflowsUInt32(Tokens(devices)[i])

\* C4: a devices string with an id that does not fit unsigned int never gets
\* past DoPrepare: the invocation fails with the descriptor unopened and no
\* namespace entered.
C4_OverflowingIdRejected ==
    HasOverflowToken(args.devices)
        => \/ pc \in {"getopt", "prepare"}
           \/ pc = "done" /\ ret = -1 /\ Untouched

\* C5: the exit status is 0 or -1, and it is 0 exactly when every option was
\* accepted, the arguments are valid and every step of SetupContainer,
\* the restore included, succeeded.
C5_ZeroIffAllSucceeded ==
    pc = "done" =>
        /\ ret \in {0, -1}
        /\ ret = 0 <=> (last.ret = 0 /\ IsCmdArgsValid(args) /\ trace = FullTrace)

\* Setup succeeded but the restore failed: the status is nonzero.
C5_Witness ==
    /\ pc = "done"
    /\ ret = -1
    /\ InTrace(Event("SetupCgroup", TRUE))
    /\ InTrace(Event("EnterNsByFd", FALSE))

\* C6: when the invocation returns 0 the caller is in the namespace it was in
\* before the call, the descriptor it restored from was saved there, and the
\* last step is a successful EnterNsByFd that follows the mounting and the
\* cgroup configuration.
C6_ReturnsInOriginalNamespace ==
    (pc = "done" /\ ret = 0) =>
        /\ ns = "origin"
        /\ fds.refers = "origin"
        /\ trace # <<>>
        /\ trace[Len(trace)] = Event("EnterNsByFd", TRUE)
        /\ \E i, j \in 1..Len(trace) :
             /\ i < j /\ j < Len(trace)
             /\ trace[i] = Event("DoMounting", TRUE)
             /\ trace[j] = Event("SetupCgroup", TRUE)
        /\ \A i \in 1..Len(trace) :
             trace[i].op = "EnterNsByPath" => i < Len(trace) - 2

C6_Witness ==
    /\ pc = "done"
    /\ ret = 0
    /\ ns = "origin"
    /\ trace = FullTrace

\* The pipeline has not started and, if the invocation has ended, it failed
\* without touching anything.
NotPastValidation ==
    \/ pc = "getopt"
    \/ pc = "done" /\ ret = -1 /\ Untouched

\* The last option failed the invocation.
LastRejected == last.ret = -1 /\ pc = "done" /\ ret = -1 /\ Untouched

\* s is an optional minus sign followed by one or more decimal digits.
IsDecimal(s) ==
    LET body == IF s # <<>> /\ Head(s) = "-" THEN Tail(s) ELSE s
    IN  body # <<>> /\ \A i \in 1..Len(body) : body[i] \in Digits

\* The value of a digit string as a 128-bit number, wide enough for every
\* string of the command lines.
Wide(ds) == Accumulate(ds, Zero(Limbs(128)), FALSE).val

\* The line of pid_max without its newline.
PidMaxLine == SelectSeq(pidMaxFile.content, LAMBDA c : c # "\n")

PidMaxKnown ==
    /\ pidMaxFile.readable
    /\ PidMaxLine # <<>>
    /\ \A i \in 1..Len(PidMaxLine) : PidMaxLine[i] \in Digits

\* The decimal value of s lies in (0, pid_max).
PidValueInRange(s) ==
    /\ Head(s) # "-"
    /\ ~IsZero(Wide(s))
    /\ ~LimbsGE(Wide(s), Wide(PidMaxLine))

\* C7: with pid_max read from the system, a --pid argument that is a decimal
\* number in (0, pid_max) is accepted and stored as that number; a decimal
\* number that is zero, negative or at least pid_max never gets an invocation
\* past validation.
C7_PidRangeEnforced ==
    (last.c = "p" /\ ~last.value.null /\ IsDecimal(last.value.s) /\ PidMaxKnown)
        => IF PidValueInRange(last.value.s)
           THEN last.ret = 0 /\ NatLimbs(args.pid, Limbs(128)) = Wide(last.value.s)
           ELSE NotPastValidation

\* The fields of s between its commas, empty ones included.
RECURSIVE Fields(_)
Fields(s) ==
    LET f == TakeUntil(s, ",")
    IN  IF Len(f) = Len(s) THEN <<f>> ELSE <<f>> \o Fields(DropN(s, Len(f) + 1))

\* s is a list of decimal ids separated by single commas.
IsIdList(s) ==
    \A i \in 1..Len(Fields(s)) :
        /\ Fields(s)[i] # <<>>
        /\ \A j \in 1..Len(Fields(s)[i]) : Fields(s)[i][j] \in Digits

\* C8: a --devices argument with a character that is neither a digit nor a
\* comma fails the invocation; a list of decimal ids that fits the buffer and
\* the device list is accepted, and once DoPrepare has run the configuration
\* holds exactly the ids of the list, in order, with their count.
C8_DeviceListParsed ==
    (last.c = "d" /\ ~last.value.null) =>
        /\ (\E i \in 1..Len(last.value.s) : last.value.s[i] \notin Digits \cup {","})
              => LastRejected
        /\ ( /\ IsIdList(last.value.s)
             /\ Len(last.value.s) < BUF_SIZE
             /\ Len(Fields(last.value.s)) <= MAX_DEVICE_NR )
              => /\ last.ret = 0
                 /\ Attempted("DoPrepare")
                      => /\ config.devicesNr = Len(Fields(last.value.s))
                         /\ Len(config.devices) = Len(Fields(last.value.s))
                         /\ \A i \in 1..Len(config.devices) :
                              Resize(config.devices[i], Limbs(128))
                                  = Wide(Fields(last.value.s)[i])

WhiteListed(path) == \E i \in 1..WHITE_LIST_NUM : mountWhiteList[i] = path

\* C9: a --mount-file or --mount-dir option is accepted only with a path that
\* equals one of the four whitelist entries, and then the path is the last of
\* its list; with any other path the invocation fails, nothing touched.
C9_WhitelistExactMatch ==
    (last.c \in {"f", "i"}) =>
        /\ last.ret = 0 =>
             /\ ~last.value.null
             /\ WhiteListed(last.value.s)
             /\ LET list == IF last.c = "f" THEN args.files ELSE args.dirs
                IN  list # <<>> /\ list[Len(list)] = last.value.s
        /\ (last.value.null \/ ~WhiteListed(last.value.s)) => LastRejected

\* A path that passes the path check and that an entry starts with,
\* /usr/local/Ascend/driver/lib, was rejected.
C9_Witness ==
    /\ last.c \in {"f", "i"}
    /\ ~last.value.null
    /\ last.value.s = AbsPath(<<"usr", "local", "Ascend", "driver", "lib">>)
    /\ CheckFileLegality(last.value.s, strlenPath(last.value.s), "partial")
    /\ LastRejected

OptionStrings == {OPT_NODRV_VIRTUAL, OPT_NODRV, OPT_VIRTUAL}

\* C10: an --options argument that is one of the three option strings is
\* accepted and stored; with any other string the invocation fails, nothing
\* touched.
C10_OptionsExactMatch ==
    (last.c = "o" /\ ~last.value.null) =>
        IF last.value.s \in OptionStrings
        THEN last.ret = 0 /\ args.options = last.value.s
        ELSE LastRejected

\* The empty options string was rejected after other options were accepted.
C10_Witness ==
    /\ last.c = "o"
    /\ last.value = Ptr(<<>>)
    /\ args.pid > 0
    /\ LastRejected

\* A step of the option loop that handled the option c.
HandledOption(c) == pc = "getopt" /\ last'.c = c /\ (pc' = "getopt" \/ last' # last)

\* C11: the files and dirs lists never hold more than MAX_MOUNT_NR entries,
\* and a --mount-file or --mount-dir option that arrives when its list is full
\* fails the invocation and leaves the list as it was.
C11_MountListsBounded ==
    /\ [](Len(args.files) <= MAX_MOUNT_NR /\ Len(args.dirs) <= MAX_MOUNT_NR)
    /\ [][ /\ (HandledOption("f") /\ Len(args.files) = MAX_MOUNT_NR)
              => (last'.ret = -1 /\ pc' = "done" /\ ret' = -1
                  /\ args'.files = args.files)
           /\ (HandledOption("i") /\ Len(args.dirs) = MAX_MOUNT_NR)
              => (last'.ret = -1 /\ pc' = "done" /\ ret' = -1
                  /\ args'.dirs = args.dirs) ]_vars

\* A whitelisted file was rejected because the files list, all of whose
\* entries had been accepted, was full.
C11_Witness ==
    /\ last.c = "f"
    /\ LastRejected
    /\ ~last.value.null
    /\ WhiteListed(last.value.s)
    /\ Len(args.files) = MAX_MOUNT_NR
    /\ \A i \in 1..Len(args.files) : WhiteListed(args.files[i])

\* C12: an option given in its short form with a value reaches the parser of
\* its flag with that value, as the long form does, and a whitelisted
\* directory given with -i to a list that is not full is accepted as the last
\* entry of the mount-dir list.
C12_ShortFormsTakeValue ==
    (last.item.form = "short" /\ last.item.name \in ShortWithArg \cup ShortNoArg
     /\ ~last.item.arg.null)
        => /\ last.c = last.item.name
           /\ last.value = last.item.arg
           /\ (last.c = "i" /\ WhiteListed(last.item.arg.s))
                 => \/ last.ret = 0 /\ args.dirs # <<>>
                       /\ args.dirs[Len(args.dirs)] = last.item.arg.s
                    \/ LastRejected /\ Len(args.dirs) = MAX_MOUNT_NR

\* C13: dcmiInit_dl returns SO_NOT_FOUND, with no handle kept, when dlopen
\* fails, and a wrapper whose symbol the most recent dcmiInit_dl did not
\* resolve (none was called, it failed, or the library lacks the symbol)
\* returns FUNCTION_NOT_FOUND and does not crash.
C13_UnboundSymbolIsAnError ==
    /\ (dcmi.call.op = "dcmiInit_dl" /\ dcmi.call.sym = "dlopen")
          => (dcmi.call.result = SO_NOT_FOUND /\ dcmi.dcmiHandle = "NULL")
    /\ (dcmi.call.op = "CALL_FUNC" /\ dcmi.call.sym \notin dcmi.resolved)
          => (dcmi.call.result = FUNCTION_NOT_FOUND /\ ~dcmi.crashed)

\* The names of p up to the k-th.
NamesUpTo(p, k) == SubSeq(PathNames(p), 1, k)

HasDotComponent(p) == \E i \in 1..Len(p) : p[i] \in {".", ".."}

HasSymlinkComponent(p) ==
    \E k \in 1..Len(PathNames(p)) : lstat(NamesUpTo(p, k)) = "link"

\* Every name of p but the last is an existing directory, and the last does
\* not exist.
OnlyFinalMissing(p) ==
    /\ PathNames(p) # <<>>
    /\ \A k \in 1..(Len(PathNames(p)) - 1) : lstat(NamesUpTo(p, k)) = "dir"
    /\ lstat(PathNames(p)) = "none"

\* p is written as realpath writes a path: absolute, one separator before
\* each name, no name "." or "..".
IsCanonicalForm(p) == p # <<>> /\ p = AbsPath(PathNames(p)) /\ ~HasDotComponent(p)

\* C14: a --rootfs, --mount-file or --mount-dir path with a symbolic link, "."
\* or ".." among its names, or on which realpath fails for another reason
\* than its last name alone not existing, fails the invocation; an accepted
\* path is in canonical form and has no symbolic link among its names.
C14_OnlyCanonicalPathsPass ==
    (last.c \in {"r", "f", "i"} /\ ~last.value.null) =>
        /\ ( \/ HasDotComponent(last.value.s)
             \/ HasSymlinkComponent(last.value.s)
             \/ /\ Resolve(<<>>, PathNames(last.value.s), MaxSymlinks).err # "OK"
                /\ ~OnlyFinalMissing(last.value.s) )
              => LastRejected
        /\ last.ret = 0
              => /\ IsCanonicalForm(last.value.s)
                 /\ ~HasSymlinkComponent(last.value.s)

\* A rootfs whose last name does not exist yet was accepted.
C14_Witness ==
    /\ last.c = "r"
    /\ last.ret = 0
    /\ last.value = Ptr(AbsPath(<<"rootfs", "new">>))
    /\ OnlyFinalMissing(last.value.s)
    /\ args.rootfs = last.value.s

\* The number of maximal runs of digits of s.
NumDigitRuns(s) ==
    Cardinality({ i \in 1..Len(s) :
                    s[i] \in Digits /\ (i = 1 \/ s[i - 1] \notin Digits) })

\* The capacity DoPrepare passes to ParseDeviceIDs in config->devicesNr.
Capacity == InitParsedConfig.devicesNr

\* C15: the device list never holds more entries than the capacity passed to
\* ParseDeviceIDs; a devices string with more ids than that makes DoPrepare
\* fail before anything is opened; and when DoPrepare succeeds devicesNr is the
\* number of entries stored.
C15_DeviceListWithinCapacity ==
    /\ Len(config.devices) <= Capacity
    /\ (last.c = "d" /\ last.ret = 0 /\ Attempted("DoPrepare")
        /\ NumDigitRuns(last.value.s) > Capacity)
          => /\ InTrace(Event("DoPrepare", FALSE))
             /\ pc = "done" /\ ret = -1 /\ fds.opens = 0 /\ ns = "origin"
    /\ InTrace(Event("DoPrepare", TRUE))
          => (config.devicesNr = Len(config.devices) /\ config.devicesNr <= Capacity)

\* A list of one id more than the capacity made DoPrepare fail with the list
\* filled up to the capacity.
C15_Witness ==
    /\ last.c = "d"
    /\ NumDigitRuns(last.value.s) = Capacity + 1
    /\ InTrace(Event("DoPrepare", FALSE))
    /\ Len(config.devices) = Capacity
    /\ pc = "done" /\ ret = -1

\* The fallible steps of SetupContainer, in the order of its code.
StepOrder == <<"DoPrepare", "EnterNsByPath", "DoMounting", "SetupCgroup", "EnterNsByFd">>

\* The steps made so far (the trace without the open inside DoPrepare).
Steps == SelectSeq(trace, LAMBDA e : e.op # "open")

\* C16: the steps made are an initial part of DoPrepare, EnterNsByPath,
\* DoMounting, SetupCgroup, EnterNsByFd, each made once; every step but the
\* last made succeeded; and a step that failed ended the invocation with -1.
\* So DoMounting and SetupCgroup come after a successful EnterNsByPath and
\* before EnterNsByFd.
C16_StepsOnceInOrder ==
    /\ Len(Steps) <= Len(StepOrder)
    /\ \A i \in 1..Len(Steps) : Steps[i].op = StepOrder[i]
    /\ \A i \in 1..(Len(Steps) - 1) : Steps[i].ok
    /\ (Steps # <<>> /\ ~Steps[Len(Steps)].ok) => (pc = "done" /\ ret = -1)
    /\ pc = "enterns"  => Len(Steps) = 1
    /\ pc = "mounting" => Len(Steps) = 2
    /\ pc = "cgroup"   => Len(Steps) = 3
    /\ pc = "restore"  => Len(Steps) = 4

\* The mounting failed and nothing was run after it.
C16_Witness ==
    /\ pc = "done"
    /\ ret = -1
    /\ Steps = << Event("DoPrepare", TRUE), Event("EnterNsByPath", TRUE),
                  Event("DoMounting", FALSE) >>

\* Process has called SetupContainer.
SetupCalled == pc \notin {"getopt", "done"} \/ (pc = "done" /\ trace # <<>>)

RequiredGiven == args.devices # <<>> /\ args.rootfs # <<>> /\ args.pid > 0

\* C17: SetupContainer is called only with a devices string, a rootfs and a
\* pid > 0; when the options are exhausted Process goes on to SetupContainer
\* if these three are given, whatever the options string and the mount lists
\* hold, and otherwise returns -1 with nothing touched.
C17_RequiredFields ==
    /\ [](SetupCalled => RequiredGiven)
    /\ []((pc = "done" /\ ~RequiredGiven) => (ret = -1 /\ Untouched))
    /\ [][ (pc = "getopt" /\ pc' # "getopt" /\ last' = last)
              => IF RequiredGiven THEN pc' = "prepare"
                 ELSE pc' = "done" /\ ret' = -1 ]_vars

\* An invocation without --options, --mount-file and --mount-dir succeeded.
C17_Witness ==
    /\ pc = "done"
    /\ ret = 0
    /\ args.options = <<>>
    /\ args.files = <<>>
    /\ args.dirs = <<>>

\* A step of the option loop that accepted the option c.
AcceptedOption(c) == HandledOption(c) /\ last'.ret = 0

\* C18: a rejected option ends the invocation with -1, nothing touched, and no
\* option is handled after it; an accepted --devices, --rootfs, --options or
\* --pid option replaces the value of its field, whatever an earlier
\* occurrence left there, and changes no other field; DoPrepare uses the
\* fields as the last accepted options left them.
C18_LastOccurrenceWins ==
    /\ [](last.ret = -1 => (pc = "done" /\ ret = -1 /\ Untouched))
    /\ [][ /\ last.ret = -1 => (last' = last /\ args' = args)
           /\ AcceptedOption("d")
                => args' = [args EXCEPT !.devices = last'.value.s]
           /\ AcceptedOption("r")
                => args' = [args EXCEPT !.rootfs = last'.value.s]
           /\ AcceptedOption("o")
                => args' = [args EXCEPT !.options = last'.value.s]
           /\ AcceptedOption("p")
                => /\ args' = [args EXCEPT !.pid = args'.pid]
                   /\ NatLimbs(args'.pid, Limbs(128))
                        = Wide(Numeral(last'.value.s).digits)
           /\ (pc = "prepare" /\ pc' = "enterns")
                => /\ config'.rootfs = args.rootfs
                   /\ Len(config'.devices) = NumDigitRuns(args.devices) ]_vars

\* --devices 0,1 was accepted after --devices 1,2,3 and a --pid option, and
\* the invocation succeeded with the two devices of the later occurrence.
C18_Witness ==
    /\ last.c = "d"
    /\ last.value = Ptr(Str_0_1)
    /\ args.pid > 0
    /\ pc = "done"
    /\ ret = 0
    /\ config.devicesNr = 2

\* C19: dlclose is never called on a handle that holds no reference;
\* dcmiShutDown with no handle loaded returns SUCCESS without calling dlclose;
\* a dcmiInit_dl that fails leaves no more references on the library than it
\* found.
C19_HandleClosedOncePerOpen ==
    /\ [](dcmi.staleCloses = 0)
    /\ [][ /\ (dcmi'.call.op = "dcmiShutDown" /\ dcmi.dcmiHandle = "NULL")
                => (dcmi'.call.result = SUCCESS /\ dcmi'.dlcloses = dcmi.dlcloses)
           /\ (dcmi'.call.op = "dcmiInit_dl" /\ dcmi'.call.result # SUCCESS)
                => dcmi'.refs <= dcmi.refs ]_vars

\* The maximal digit runs of a string of digits and commas, in order.
DigitRuns(s) == SelectSeq(Fields(s), LAMBDA f : f # <<>>)

\* s is not empty and holds nothing but commas.
OnlyCommas(s) == s # <<>> /\ \A i \in 1..Len(s) : s[i] = ","

\* C20: a --devices argument of digits and commas that fits the buffer is
\* accepted; once DoPrepare has succeeded the configuration holds the values
\* of its maximal digit runs, in order, and their count, empty tokens
\* contributing nothing; an argument of commas only passes validation, gives
\* the empty list with count 0, and setup goes on to enter the namespace of
\* the container.
C20_EmptyTokensIgnored ==
    ( /\ last.c = "d" /\ ~last.value.null
      /\ last.value.s # <<>>
      /\ Len(last.value.s) < BUF_SIZE
      /\ \A i \in 1..Len(last.value.s) : last.value.s[i] \in Digits \cup {","} )
    => /\ last.ret = 0
       /\ InTrace(Event("DoPrepare", TRUE))
            => /\ config.devicesNr = Len(DigitRuns(last.value.s))
               /\ Len(config.devices) = Len(DigitRuns(last.value.s))
               /\ \A i \in 1..Len(config.devices) :
                    Resize(config.devices[i], Limbs(128))
                        = Wide(DigitRuns(last.value.s)[i])
       /\ OnlyCommas(last.value.s)
            => /\ (args.pid > 0 /\ args.rootfs # <<>> /\ pc \notin {"getopt", "prepare"})
                    => Attempted("DoPrepare")
               /\ Attempted("DoPrepare")
                    => (config.devices = <<>> /\ config.devicesNr = 0)
               /\ (InTrace(Event("DoPrepare", TRUE)) /\ pc # "enterns")
                    => Attempted("EnterNsByPath")

====
